---------------------------- MODULE Spec2Model ----------------------------
(***************************************************************************)
(* A model of src/lib/object.c of tpm2-pkcs11: the token's object          *)
(* registry, the template matcher, the mechanism compatibility check, the  *)
(* find-objects protocol (init / next / final) and attribute retrieval.    *)
(*                                                                         *)
(* Conventions.  A C pointer is a tuple of length at most one: NULL is     *)
(* <<>>, and a pointer to x is <<x>>.  A pointer to a tobject is <<i>>, i  *)
(* the object's position in the token's object list; a pointer to a byte   *)
(* buffer is <<bytes>>.  C arrays are indexed from 0, sequences from 1.    *)
(***************************************************************************)
EXTENDS Integers, Sequences, FiniteSets, TLC

VARIABLES
    tobjects,   \* tok->tobjects: the token's list of tobject, in list order
    opdata,     \* tok->opdata: the active-operation slot [op, data]
    allocated,  \* number of live calloc blocks owned by find sessions
    call,       \* the last call made on the library: [fn, args, rv, out]
    caller      \* what the caller holds of its find session: [templ, found, open, pages]

vars == <<tobjects, opdata, allocated, call, caller>>

-----------------------------------------------------------------------------
(* Bounds of the model *)

MaxObjs   == 2   \* objects in the registry
MaxAttrs  == 2   \* attributes of an object (pure-function specifications)
MaxTempl  == 2   \* entries of a template
MaxMechs  == 2   \* mechanism entries of an object
MaxCount  == 2   \* max_object_count of a find_next call

-----------------------------------------------------------------------------
(* C values *)

NULL == <<>>

CKR_OK                        == "CKR_OK"
CKR_HOST_MEMORY               == "CKR_HOST_MEMORY"
CKR_OPERATION_ACTIVE          == "CKR_OPERATION_ACTIVE"
CKR_OPERATION_NOT_INITIALIZED == "CKR_OPERATION_NOT_INITIALIZED"
CKR_OBJECT_HANDLE_INVALID     == "CKR_OBJECT_HANDLE_INVALID"
CKR_BUFFER_TOO_SMALL          == "CKR_BUFFER_TOO_SMALL"
CKR_MECHANISM_INVALID         == "CKR_MECHANISM_INVALID"
CKR_MECHANISM_PARAM_INVALID   == "CKR_MECHANISM_PARAM_INVALID"
\* not a return code: the process died on an invalid memory access
SIGSEGV                       == "SIGSEGV"

CKM_RSA_X_509     == "CKM_RSA_X_509"
CKM_RSA_PKCS_OAEP == "CKM_RSA_PKCS_OAEP"
CKM_AES_CBC       == "CKM_AES_CBC"
\* two mechanisms that fall to the default (memcmp) rule
CKM_AES_ECB       == "CKM_AES_ECB"
CKM_SHA256_HMAC   == "CKM_SHA256_HMAC"

operation_none == "operation_none"
operation_find == "operation_find"

\* the IV length object_CKM_AES_CBC_params_supported asks for (object.c:85)
AES_BLOCK_SIZE == 16

SeqUpTo(S, n) == UNION {[1..k -> S] : k \in 0..n}

\* CK_ATTRIBUTE
Attr(t, p, n) == [type |-> t, pValue |-> p, ulValueLen |-> n]
\* CK_MECHANISM
Mech(m, p, n) == [mechanism |-> m, pParameter |-> p, ulParameterLen |-> n]
\* tobject, the fields object.c reads
TObject(id, attrs, mechs) ==
    [id         |-> id,
     atributes  |-> [count |-> Len(attrs), attrs |-> attrs],
     mechanisms |-> [count |-> Len(mechs), mech |-> mechs]]

\* tobject_set_id as the loader uses it: distinct ids, none equal to a list
\* position, decreasing along the list
ObjId(i) == 10 + MaxObjs - i

\* memcmp(a, b, n) = 0 iff the first n bytes agree; no byte is read when n = 0
memcmp(a, b, n) ==
    IF n = 0 THEN 0
    ELSE IF \A k \in 1..n : a[1][k] = b[1][k] THEN 0 ELSE 1

\* memcpy(dst, src, n): the buffer dst points to, its first n bytes overwritten
memcpy(dst, src, n) ==
    IF n = 0 THEN dst
    ELSE <<[k \in 1..Len(dst[1]) |-> IF k <= n THEN src[1][k] ELSE dst[1][k]]>>

-----------------------------------------------------------------------------
(* Template matcher: object_attr_filter *)

AttrsOf(tobj) == tobjects[tobj[1]].atributes

\* a mutant of the inner loop: stops at the first attribute of the type
RECURSIVE AttrMatchLoopFirstType(_, _, _)
AttrMatchLoopFirstType(tobj, search, j) ==
    IF j > AttrsOf(tobj).count THEN FALSE
    ELSE LET compare == AttrsOf(tobj).attrs[j] IN
         IF search.type # compare.type
         THEN AttrMatchLoopFirstType(tobj, search, j + 1)
         ELSE /\ search.ulValueLen = compare.ulValueLen
              /\ memcmp(compare.pValue, search.pValue, search.ulValueLen) = 0

\* the inner loop (for j ...): is_attr_match for one template entry
RECURSIVE AttrMatchLoop(_, _, _)
AttrMatchLoop(tobj, search, j) ==
    IF j > AttrsOf(tobj).count THEN FALSE
    ELSE LET compare == AttrsOf(tobj).attrs[j] IN
         IF search.type # compare.type
         THEN AttrMatchLoop(tobj, search, j + 1)
         ELSE IF search.ulValueLen # compare.ulValueLen
         THEN AttrMatchLoop(tobj, search, j + 1)
         ELSE IF memcmp(compare.pValue, search.pValue, search.ulValueLen) = 0
         THEN TRUE
         ELSE AttrMatchLoop(tobj, search, j + 1)

\* a mutant of the for loop of object_attr_filter: one found entry is enough
RECURSIVE FilterLoopAny(_, _, _, _)
FilterLoopAny(tobj, templ, count, i) ==
    IF i > count THEN NULL
    ELSE IF AttrMatchLoop(tobj, templ[i], 1) THEN tobj
    ELSE FilterLoopAny(tobj, templ, count, i + 1)

\* the outer loop (for i ...): NULL at the first entry without a match
RECURSIVE FilterLoop(_, _, _, _)
FilterLoop(tobj, templ, count, i) ==
    IF i > count THEN tobj
    ELSE IF ~AttrMatchLoop(tobj, templ[i], 1) THEN NULL
    ELSE FilterLoop(tobj, templ, count, i + 1)

\* a mutant: an empty template is taken to match nothing
object_attr_filter_EmptyMatchesNone(tobj, templ, count) ==
    IF count = 0 THEN NULL ELSE FilterLoop(tobj, templ, count, 1)

object_attr_filter(tobj, templ, count) ==
    IF count = 0 THEN tobj ELSE FilterLoop(tobj, templ, count, 1)

\* object_get_attribute_by_type: pointer to the first attribute of the type
RECURSIVE ByTypeLoop(_, _, _)
ByTypeLoop(tobj, atype, i) ==
    IF i > AttrsOf(tobj).count THEN NULL
    ELSE IF AttrsOf(tobj).attrs[i].type = atype THEN <<i>>
    ELSE ByTypeLoop(tobj, atype, i + 1)

object_get_attribute_by_type(tobj, atype) == ByTypeLoop(tobj, atype, 1)

\* object_get_attribute_full: pointer to the first attribute equal to attr
RECURSIVE FullLoop(_, _, _)
FullLoop(tobj, attr, i) ==
    IF i > AttrsOf(tobj).count THEN NULL
    ELSE LET a == AttrsOf(tobj).attrs[i] IN
         IF a.type = attr.type /\ a.ulValueLen = attr.ulValueLen
         THEN IF a.ulValueLen > 0
                 /\ memcmp(a.pValue, attr.pValue, attr.ulValueLen) # 0
              THEN FullLoop(tobj, attr, i + 1)
              ELSE <<i>>
         ELSE FullLoop(tobj, attr, i + 1)

object_get_attribute_full(tobj, attr) == FullLoop(tobj, attr, 1)

-----------------------------------------------------------------------------
(* Mechanism compatibility: object_mech_is_supported *)

MechsOf(tobj) == tobjects[tobj[1]].mechanisms

\* CK_RSA_PKCS_OAEP_PARAMS as the bytes <<hashAlg, mgf, source>>
hashAlg(params) == params[1][1]
mgf(params)     == params[1][2]

object_CKM_RSA_PKCS_OAEP_params_supported(requested, got) ==
    hashAlg(requested) = hashAlg(got) /\ mgf(requested) = mgf(got)

object_CKM_AES_CBC_params_supported(requested) ==
    requested.ulParameterLen = AES_BLOCK_SIZE

\* a mutant of the switch: CKM_AES_CBC has no case of its own
is_equal_CBCDefault(mech, m) ==
    CASE mech.mechanism = CKM_RSA_X_509 -> TRUE
      [] mech.mechanism = CKM_RSA_PKCS_OAEP ->
            object_CKM_RSA_PKCS_OAEP_params_supported(mech.pParameter, m.pParameter)
      [] OTHER ->
            /\ mech.ulParameterLen = m.ulParameterLen
            /\ memcmp(mech.pParameter, m.pParameter, m.ulParameterLen) = 0

\* the switch on mech->mechanism
is_equal(mech, m) ==
    CASE mech.mechanism = CKM_RSA_X_509 -> TRUE
      [] mech.mechanism = CKM_RSA_PKCS_OAEP ->
            object_CKM_RSA_PKCS_OAEP_params_supported(mech.pParameter, m.pParameter)
      [] mech.mechanism = CKM_AES_CBC ->
            object_CKM_AES_CBC_params_supported(mech)
      [] OTHER ->
            /\ mech.ulParameterLen = m.ulParameterLen
            /\ memcmp(mech.pParameter, m.pParameter, m.ulParameterLen) = 0

\* a mutant of the loop: got_to_params is never set
RECURSIVE MechLoopNoFlag(_, _, _, _)
MechLoopNoFlag(tobj, mech, i, got_to_params) ==
    IF i > MechsOf(tobj).count
    THEN IF got_to_params THEN CKR_MECHANISM_PARAM_INVALID ELSE CKR_MECHANISM_INVALID
    ELSE LET m == MechsOf(tobj).mech[i] IN
         IF mech.mechanism # m.mechanism
         THEN MechLoopNoFlag(tobj, mech, i + 1, got_to_params)
         ELSE IF ~is_equal(mech, m)
         THEN MechLoopNoFlag(tobj, mech, i + 1, got_to_params)
         ELSE CKR_OK

\* the loop over tobj->mechanisms and the final return
RECURSIVE MechLoop(_, _, _, _)
MechLoop(tobj, mech, i, got_to_params) ==
    IF i > MechsOf(tobj).count
    THEN IF got_to_params THEN CKR_MECHANISM_PARAM_INVALID ELSE CKR_MECHANISM_INVALID
    ELSE LET m == MechsOf(tobj).mech[i] IN
         IF mech.mechanism # m.mechanism
         THEN MechLoop(tobj, mech, i + 1, got_to_params)
         ELSE IF ~is_equal(mech, m)
         THEN MechLoop(tobj, mech, i + 1, TRUE)
         ELSE CKR_OK

object_mech_is_supported(tobj, mech) == MechLoop(tobj, mech, 1, FALSE)

-----------------------------------------------------------------------------
(* The active-operation slot: token_opdata_* of token.c, which object.c     *)
(* calls; modelled from the specification's session/operation-state         *)
(* collaborator (is_operation_active, set_active, get_active, clear_active) *)

token_opdata_is_active == opdata.op # operation_none

token_opdata_set(op, data) == [op |-> op, data |-> data]

token_opdata_get(op) ==
    IF opdata.op = op
    THEN [rv |-> CKR_OK, data |-> opdata.data]
    ELSE [rv |-> CKR_OPERATION_NOT_INITIALIZED, data |-> NULL]

token_opdata_clear == token_opdata_set(operation_none, NULL)

-----------------------------------------------------------------------------
(* Find session.  object_find_data is [head, cur]; a tobject_match_list     *)
(* node is [obj, next], so a list is NULL or <<[obj, next]>> and fd->cur,   *)
(* a pointer into the list, is the part of the list from that node on.      *)

\* cur->next on the token's object list
ListNext(cur) == IF cur[1] < Len(tobjects) THEN <<cur[1] + 1>> ELSE NULL

\* match_cur->next = calloc(...); match_cur->next->obj = tobj, match_cur the tail
RECURSIVE MatchListAppend(_, _)
MatchListAppend(list, tobj) ==
    IF list = NULL THEN <<[obj |-> tobj, next |-> NULL]>>
    ELSE <<[obj |-> list[1].obj, next |-> MatchListAppend(list[1].next, tobj)]>>

\* the while loop of free_object_find_data: the number of nodes it frees
RECURSIVE FreeLoop(_)
FreeLoop(cur) == IF cur = NULL THEN 0 ELSE 1 + FreeLoop(cur[1].next)

\* a mutant: frees the session and none of its nodes
free_object_find_data_NoNodes(fd) == IF fd = NULL THEN 0 ELSE 1

\* free_object_find_data: the number of blocks it frees
free_object_find_data(fd) ==
    IF fd = NULL THEN 0 ELSE FreeLoop(fd[1].head) + 1

\* the while loop of object_find_init over the token's objects.  n counts the
\* calloc calls made so far by this call; the calloc numbered oom fails
\* (oom = 0: none fails).
RECURSIVE FindInitLoop(_, _, _, _, _, _)
FindInitLoop(templ, count, cur, head, n, oom) ==
    IF cur = NULL THEN [rv |-> CKR_OK, head |-> head, n |-> n]
    ELSE LET tobj == cur
             nxt  == ListNext(cur)
         IN  IF object_attr_filter(tobj, templ, count) = NULL
             THEN FindInitLoop(templ, count, nxt, head, n, oom)
             ELSE IF n + 1 = oom
             THEN [rv |-> CKR_HOST_MEMORY, head |-> head, n |-> n]
             ELSE FindInitLoop(templ, count, nxt,
                               MatchListAppend(head, tobj), n + 1, oom)

\* a mutant: on a token with no object the session is not stored
FindInitBuild_EmptyNotStored(templ, count, oom) ==
    IF oom = 1
    THEN [rv |-> CKR_HOST_MEMORY, opdata |-> opdata,
          allocated |-> allocated - free_object_find_data(NULL)]
    ELSE IF tobjects = <<>>
    THEN [rv |-> CKR_OK, opdata |-> opdata, allocated |-> allocated]
    ELSE LET r == FindInitLoop(templ, count, <<1>>, NULL, 1, oom) IN
         IF r.rv # CKR_OK
         THEN [rv |-> r.rv, opdata |-> opdata,
               allocated |-> allocated + r.n
                   - free_object_find_data(<<[head |-> r.head, cur |-> NULL]>>)]
         ELSE [rv |-> CKR_OK,
               opdata |-> token_opdata_set(operation_find,
                                           <<[head |-> r.head, cur |-> r.head]>>),
               allocated |-> allocated + r.n]

\* object_find_init from its first calloc on (the slot was found free)
FindInitBuild(templ, count, oom) ==
    IF oom = 1
    THEN [rv |-> CKR_HOST_MEMORY, opdata |-> opdata,
          allocated |-> allocated - free_object_find_data(NULL)]
    ELSE IF tobjects = <<>>
    THEN [rv |-> CKR_OK,
          opdata |-> token_opdata_set(operation_find,
                                      <<[head |-> NULL, cur |-> NULL]>>),
          allocated |-> allocated + 1]
    ELSE LET r == FindInitLoop(templ, count, <<1>>, NULL, 1, oom) IN
         IF r.rv # CKR_OK
         THEN [rv |-> r.rv, opdata |-> opdata,
               allocated |-> allocated + r.n
                   - free_object_find_data(<<[head |-> r.head, cur |-> NULL]>>)]
         ELSE [rv |-> CKR_OK,
               opdata |-> token_opdata_set(operation_find,
                                           <<[head |-> r.head, cur |-> r.head]>>),
               allocated |-> allocated + r.n]

\* a mutant: the slot is not tested, a second find_init replaces the session
object_find_init_NoActiveCheck(templ, count, oom) ==
    FindInitBuild(templ, count, oom)

\* object_find_init: [rv, opdata, allocated] after the call
object_find_init(templ, count, oom) ==
    IF token_opdata_is_active
    THEN [rv |-> CKR_OPERATION_ACTIVE, opdata |-> opdata,
          allocated |-> allocated - free_object_find_data(NULL)]
    ELSE FindInitBuild(templ, count, oom)

\* a mutant of the loop of object_find: the cursor is not advanced
RECURSIVE FindLoopNoAdvance(_, _, _, _)
FindLoopNoAdvance(cur, object, count, max_object_count) ==
    IF cur # NULL /\ count < max_object_count
    THEN LET r == FindLoopNoAdvance(cur[1].next,
                      [object EXCEPT ![count + 1] = <<tobjects[cur[1].obj[1]].id>>],
                      count + 1, max_object_count)
         IN  [r EXCEPT !.cur = cur]
    ELSE [cur |-> cur, object |-> object, count |-> count]

\* a mutant of the loop of object_find: it stops one handle short of the bound
RECURSIVE FindLoopShortPage(_, _, _, _)
FindLoopShortPage(cur, object, count, max_object_count) ==
    IF cur # NULL /\ count + 1 < max_object_count
    THEN FindLoopShortPage(cur[1].next,
                  [object EXCEPT ![count + 1] = <<tobjects[cur[1].obj[1]].id>>],
                  count + 1, max_object_count)
    ELSE [cur |-> cur, object |-> object, count |-> count]

\* the while loop of object_find
RECURSIVE FindLoop(_, _, _, _)
FindLoop(cur, object, count, max_object_count) ==
    IF cur # NULL /\ count < max_object_count
    THEN FindLoop(cur[1].next,
                  [object EXCEPT ![count + 1] = <<tobjects[cur[1].obj[1]].id>>],
                  count + 1, max_object_count)
    ELSE [cur |-> cur, object |-> object, count |-> count]

\* a mutant: the loop consumes the match list, the head moves with the cursor
object_find_MovesHead(object, max_object_count, object_count) ==
    LET g == token_opdata_get(operation_find) IN
    IF g.rv # CKR_OK
    THEN [rv |-> g.rv, opdata |-> opdata,
          object |-> object, object_count |-> object_count]
    ELSE LET r == FindLoop(g.data[1].cur, object, 0, max_object_count) IN
         [rv |-> CKR_OK,
          opdata |-> [opdata EXCEPT !.data = <<[head |-> r.cur, cur |-> r.cur]>>],
          object |-> r.object, object_count |-> <<r.count>>]

\* a mutant: at the end of the match list the cursor starts over
object_find_WrapsAround(object, max_object_count, object_count) ==
    LET g == token_opdata_get(operation_find) IN
    IF g.rv # CKR_OK
    THEN [rv |-> g.rv, opdata |-> opdata,
          object |-> object, object_count |-> object_count]
    ELSE LET from == IF g.data[1].cur = NULL THEN g.data[1].head
                     ELSE g.data[1].cur
             r    == FindLoop(from, object, 0, max_object_count)
         IN  [rv |-> CKR_OK,
              opdata |-> [opdata EXCEPT !.data = <<[g.data[1] EXCEPT !.cur = r.cur]>>],
              object |-> r.object, object_count |-> <<r.count>>]

\* object_find: object is the caller's array, object_count the caller's cell
object_find(object, max_object_count, object_count) ==
    LET g == token_opdata_get(operation_find) IN
    IF g.rv # CKR_OK
    THEN [rv |-> g.rv, opdata |-> opdata,
          object |-> object, object_count |-> object_count]
    ELSE LET r == FindLoop(g.data[1].cur, object, 0, max_object_count) IN
         [rv |-> CKR_OK,
          opdata |-> [opdata EXCEPT !.data = <<[g.data[1] EXCEPT !.cur = r.cur]>>],
          object |-> r.object, object_count |-> <<r.count>>]

\* a mutant: the session is freed and the slot is not cleared
object_find_final_NoClear ==
    LET g == token_opdata_get(operation_find) IN
    IF g.rv # CKR_OK
    THEN [rv |-> g.rv, opdata |-> opdata, allocated |-> allocated]
    ELSE [rv |-> CKR_OK, opdata |-> opdata,
          allocated |-> allocated - free_object_find_data(g.data)]

\* object_find_final: [rv, opdata, allocated] after the call
object_find_final ==
    LET g == token_opdata_get(operation_find) IN
    IF g.rv # CKR_OK
    THEN [rv |-> g.rv, opdata |-> opdata, allocated |-> allocated]
    ELSE [rv |-> CKR_OK, opdata |-> token_opdata_clear,
          allocated |-> allocated - free_object_find_data(g.data)]

-----------------------------------------------------------------------------
(* Attribute retrieval: object_get_attributes *)

\* the while loop of find_object_by_id
RECURSIVE FindByIdLoop(_, _)
FindByIdLoop(handle, cur) ==
    IF cur = NULL THEN NULL
    ELSE IF handle = tobjects[cur[1]].id THEN cur
    ELSE FindByIdLoop(handle, ListNext(cur))

\* find_object_by_id: the outcomes [fault, tobj] the build can produce.  The
\* loop starts at &tok->tobjects->l with no test of tok->tobjects: on a token
\* with no object this is the address of member l of a tobject at address 0.
\* Where l is the first member the address is NULL and the loop body never
\* runs; elsewhere the body reads cur_tobj->id at address 0 and faults.
find_object_by_id(handle) ==
    IF tobjects = <<>>
    THEN {[fault |-> FALSE, tobj |-> NULL], [fault |-> TRUE, tobj |-> NULL]}
    ELSE {[fault |-> FALSE, tobj |-> FindByIdLoop(handle, <<1>>)]}

\* a mutant of the loop: an absent attribute leaves the entry as it was
RECURSIVE GetAttrLoopKeepAbsent(_, _, _, _)
GetAttrLoopKeepAbsent(tobj, templ, count, i) ==
    IF i > count THEN [rv |-> CKR_OK, templ |-> templ]
    ELSE LET t     == templ[i]
             found == object_get_attribute_by_type(tobj, t.type)
         IN  IF found # NULL
             THEN LET f == AttrsOf(tobj).attrs[found[1]] IN
                  IF t.pValue = NULL
                  THEN GetAttrLoopKeepAbsent(tobj,
                          [templ EXCEPT ![i].ulValueLen = f.ulValueLen], count, i + 1)
                  ELSE IF f.ulValueLen > t.ulValueLen
                  THEN [rv |-> CKR_BUFFER_TOO_SMALL, templ |-> templ]
                  ELSE GetAttrLoopKeepAbsent(tobj,
                          [templ EXCEPT ![i].ulValueLen = f.ulValueLen,
                                        ![i].pValue = memcpy(t.pValue, f.pValue,
                                                             f.ulValueLen)],
                          count, i + 1)
             ELSE GetAttrLoopKeepAbsent(tobj, templ, count, i + 1)

\* a mutant of the loop: the size probe is answered for a null buffer only
\* when the caller's length is 0, and the fit is checked otherwise
RECURSIVE GetAttrLoopProbeChecksLen(_, _, _, _)
GetAttrLoopProbeChecksLen(tobj, templ, count, i) ==
    IF i > count THEN [rv |-> CKR_OK, templ |-> templ]
    ELSE LET t     == templ[i]
             found == object_get_attribute_by_type(tobj, t.type)
         IN  IF found # NULL
             THEN LET f == AttrsOf(tobj).attrs[found[1]] IN
                  IF t.pValue = NULL /\ t.ulValueLen = 0
                  THEN GetAttrLoopProbeChecksLen(tobj,
                          [templ EXCEPT ![i].ulValueLen = f.ulValueLen], count, i + 1)
                  ELSE IF f.ulValueLen > t.ulValueLen
                  THEN [rv |-> CKR_BUFFER_TOO_SMALL, templ |-> templ]
                  ELSE GetAttrLoopProbeChecksLen(tobj,
                          [templ EXCEPT ![i].ulValueLen = f.ulValueLen,
                                        ![i].pValue =
                                            IF t.pValue = NULL THEN NULL
                                            ELSE memcpy(t.pValue, f.pValue,
                                                        f.ulValueLen)],
                          count, i + 1)
             ELSE GetAttrLoopProbeChecksLen(tobj,
                     [templ EXCEPT ![i].pValue = NULL, ![i].ulValueLen = 0],
                     count, i + 1)

\* a mutant of the loop: the required length is reported before the fit is
\* checked
RECURSIVE GetAttrLoopLenFirst(_, _, _, _)
GetAttrLoopLenFirst(tobj, templ, count, i) ==
    IF i > count THEN [rv |-> CKR_OK, templ |-> templ]
    ELSE LET t     == templ[i]
             found == object_get_attribute_by_type(tobj, t.type)
         IN  IF found # NULL
             THEN LET f == AttrsOf(tobj).attrs[found[1]] IN
                  IF t.pValue = NULL
                  THEN GetAttrLoopLenFirst(tobj,
                          [templ EXCEPT ![i].ulValueLen = f.ulValueLen], count, i + 1)
                  ELSE IF f.ulValueLen > t.ulValueLen
                  THEN [rv |-> CKR_BUFFER_TOO_SMALL,
                        templ |-> [templ EXCEPT ![i].ulValueLen = f.ulValueLen]]
                  ELSE GetAttrLoopLenFirst(tobj,
                          [templ EXCEPT ![i].ulValueLen = f.ulValueLen,
                                        ![i].pValue = memcpy(t.pValue, f.pValue,
                                                             f.ulValueLen)],
                          count, i + 1)
             ELSE GetAttrLoopLenFirst(tobj,
                     [templ EXCEPT ![i].pValue = NULL, ![i].ulValueLen = 0],
                     count, i + 1)

\* the for loop of object_get_attributes: [rv, templ], templ the caller's
\* template as the call leaves it
RECURSIVE GetAttrLoop(_, _, _, _)
GetAttrLoop(tobj, templ, count, i) ==
    IF i > count THEN [rv |-> CKR_OK, templ |-> templ]
    ELSE LET t     == templ[i]
             found == object_get_attribute_by_type(tobj, t.type)
         IN  IF found # NULL
             THEN LET f == AttrsOf(tobj).attrs[found[1]] IN
                  IF t.pValue = NULL
                  THEN GetAttrLoop(tobj,
                          [templ EXCEPT ![i].ulValueLen = f.ulValueLen], count, i + 1)
                  ELSE IF f.ulValueLen > t.ulValueLen
                  THEN [rv |-> CKR_BUFFER_TOO_SMALL, templ |-> templ]
                  ELSE GetAttrLoop(tobj,
                          [templ EXCEPT ![i].ulValueLen = f.ulValueLen,
                                        ![i].pValue = memcpy(t.pValue, f.pValue,
                                                             f.ulValueLen)],
                          count, i + 1)
             ELSE GetAttrLoop(tobj,
                     [templ EXCEPT ![i].pValue = NULL, ![i].ulValueLen = 0],
                     count, i + 1)

\* object_get_attributes: the outcomes [rv, templ]
object_get_attributes(object, templ, count) ==
    {IF r.fault THEN [rv |-> SIGSEGV, templ |-> templ]
     ELSE IF r.tobj = NULL THEN [rv |-> CKR_OBJECT_HANDLE_INVALID, templ |-> templ]
     ELSE GetAttrLoop(r.tobj, templ, count, 1) : r \in find_object_by_id(object)}

-----------------------------------------------------------------------------
(* Input domains *)

AttrTypes == {1, 2}

\* an attribute as the loader stores it: a zero-length value has no buffer
StoredAttr(t, bytes) ==
    Attr(t, IF bytes = <<>> THEN NULL ELSE <<bytes>>, Len(bytes))
\* a get_attributes entry that probes the size; n is the caller's length
Probe(t, n) == Attr(t, NULL, n)
\* a get_attributes entry with a buffer of cap bytes, filled with 9
Buffer(t, cap) == Attr(t, <<[k \in 1..cap |-> 9]>>, cap)
\* a mechanism with its parameter bytes
MechOf(m, bytes) ==
    Mech(m, IF bytes = <<>> THEN NULL ELSE <<bytes>>, Len(bytes))

a10 == StoredAttr(1, <<0>>)
a11 == StoredAttr(1, <<1>>)
a2  == StoredAttr(2, <<0, 1>>)

\* the template matcher's inputs
FilterAttrs   == {StoredAttr(t, v) : t \in AttrTypes, v \in {<<>>, <<0>>, <<1>>}}
FilterStores  == SeqUpTo(FilterAttrs, MaxAttrs)
\* with one zero-length entry that does point to a buffer
FilterEntries == FilterAttrs \cup {Attr(1, <<(<<1>>)>>, 0)}
FilterTempls  == SeqUpTo(FilterEntries, MaxTempl)

\* the mechanism check's inputs
IV(b) == [k \in 1..AES_BLOCK_SIZE |-> b]
StoredMechs ==
    {MechOf(CKM_RSA_X_509, <<>>)}
    \cup {MechOf(CKM_RSA_PKCS_OAEP, <<h, g, 1>>) : h \in {1, 2}, g \in {1, 2}}
    \cup {MechOf(CKM_AES_CBC, <<>>), MechOf(CKM_AES_CBC, IV(0))}
    \cup {MechOf(CKM_AES_ECB, v) : v \in {<<>>, <<0>>, <<1>>}}
    \cup {MechOf(CKM_SHA256_HMAC, <<0>>)}
MechLists == SeqUpTo(StoredMechs, MaxMechs)
RequestMechs ==
    StoredMechs
    \cup {MechOf(CKM_RSA_X_509, <<1>>), MechOf(CKM_RSA_PKCS_OAEP, <<1, 1, 2>>),
          MechOf(CKM_AES_CBC, IV(1)), MechOf(CKM_AES_CBC, SubSeq(IV(1), 2, 16)),
          MechOf(CKM_AES_ECB, <<0, 1>>), Mech(CKM_AES_ECB, <<(<<0>>)>>, 0)}

\* the token of the find protocol
TokenStores == {<<>>, <<a10>>, <<a10, a2>>, <<a2, a11, a10>>}
Registries ==
    UNION {{[i \in 1..n |-> TObject(ObjId(i), s[i], <<>>)] : s \in [1..n -> TokenStores]}
           : n \in 0..MaxObjs}
FindTempls == {<<>>, <<a10>>, <<a11>>, <<a10, a2>>}
TokenGetTempls == {<<Probe(1, 0)>>, <<Buffer(1, 1), Buffer(2, 1)>>}
\* the handles a caller passes: those of the objects, and one of no object
Handles == {ObjId(i) : i \in 1..MaxObjs} \cup {0}

\* the tokens and templates of attribute retrieval
GetStoredAttrs ==
    {StoredAttr(1, <<0>>), StoredAttr(1, <<1, 0>>),
     StoredAttr(2, <<>>), StoredAttr(2, <<0, 1>>)}
GetStores == SeqUpTo(GetStoredAttrs, MaxAttrs)
GetRegistries ==
    {<<>>}
    \cup {<<TObject(ObjId(1), s, <<>>)>> : s \in GetStores}
    \cup {<<TObject(ObjId(1), <<>>, <<>>), TObject(ObjId(2), s, <<>>)>> : s \in GetStores}
GetEntries ==
    {Probe(t, n) : t \in AttrTypes, n \in {0, 1}}
    \cup {Buffer(t, c) : t \in AttrTypes, c \in 0..2}
GetTempls == SeqUpTo(GetEntries, MaxTempl)
GetHandles == {ObjId(1), ObjId(2), 0}

-----------------------------------------------------------------------------
(* Actions: one per entry point *)

NoCall    == [fn |-> "none", args |-> NULL, rv |-> CKR_OK, out |-> NULL]
\* the caller's own record of its find session: the template it passed, the
\* handles it has received, whether it still owes a find_final, and how many
\* find_next calls have handed it at least one handle
NoSession == [templ |-> <<>>, found |-> <<>>, open |-> FALSE, pages |-> 0]

\* a process that faulted makes no further call
Alive == call.rv # SIGSEGV

\* the handles a find_next call wrote to the caller's array
Written(object, count) == [i \in 1..count |-> object[i][1]]

FindInit(templ, oom) ==
    /\ Alive
    /\ LET r == object_find_init(templ, Len(templ), oom) IN
       /\ opdata' = r.opdata
       /\ allocated' = r.allocated
       /\ call' = [fn |-> "object_find_init",
                   args |-> [templ |-> templ, count |-> Len(templ), oom |-> oom],
                   rv |-> r.rv, out |-> NULL]
       /\ caller' = IF r.rv = CKR_OK
                    THEN [templ |-> templ, found |-> <<>>,
                          open |-> TRUE, pages |-> 0]
                    ELSE caller
    /\ UNCHANGED tobjects

FindNext(max_object_count) ==
    /\ Alive
    /\ LET r == object_find([i \in 1..max_object_count |-> NULL],
                            max_object_count, NULL)
       IN
       /\ opdata' = r.opdata
       /\ call' = [fn |-> "object_find",
                   args |-> [max_object_count |-> max_object_count],
                   rv |-> r.rv,
                   out |-> [object |-> r.object, object_count |-> r.object_count]]
       /\ caller' = IF r.rv = CKR_OK
                    THEN [caller EXCEPT
                            !.found = @ \o Written(r.object, r.object_count[1]),
                            !.pages = IF r.object_count[1] > 0 THEN @ + 1
                                      ELSE @]
                    ELSE caller
    /\ UNCHANGED <<tobjects, allocated>>

FindFinal ==
    /\ Alive
    /\ LET r == object_find_final IN
       /\ opdata' = r.opdata
       /\ allocated' = r.allocated
       /\ call' = [fn |-> "object_find_final", args |-> NULL,
                   rv |-> r.rv, out |-> NULL]
       /\ caller' = IF r.rv = CKR_OK THEN NoSession ELSE caller
    /\ UNCHANGED tobjects

\* a mutant: the call takes the token's operation slot for itself and clears
\* it on return
GetAttributes_ClearsSlot(object, templ) ==
    /\ Alive
    /\ \E r \in object_get_attributes(object, templ, Len(templ)) :
          call' = [fn |-> "object_get_attributes",
                   args |-> [object |-> object, templ |-> templ,
                             count |-> Len(templ)],
                   rv |-> r.rv, out |-> [templ |-> r.templ]]
    /\ opdata' = token_opdata_clear
    /\ UNCHANGED <<tobjects, allocated, caller>>

GetAttributes(object, templ) ==
    /\ Alive
    /\ \E r \in object_get_attributes(object, templ, Len(templ)) :
          call' = [fn |-> "object_get_attributes",
                   args |-> [object |-> object, templ |-> templ,
                             count |-> Len(templ)],
                   rv |-> r.rv, out |-> [templ |-> r.templ]]
    /\ UNCHANGED <<tobjects, opdata, allocated, caller>>

AttrFilter(tobj, templ) ==
    /\ call' = [fn |-> "object_attr_filter",
                args |-> [tobj |-> tobj, templ |-> templ, count |-> Len(templ)],
                rv |-> CKR_OK,
                out |-> object_attr_filter(tobj, templ, Len(templ))]
    /\ UNCHANGED <<tobjects, opdata, allocated, caller>>

MechIsSupported(tobj, mech) ==
    /\ call' = [fn |-> "object_mech_is_supported",
                args |-> [tobj |-> tobj, mech |-> mech],
                rv |-> object_mech_is_supported(tobj, mech), out |-> NULL]
    /\ UNCHANGED <<tobjects, opdata, allocated, caller>>

-----------------------------------------------------------------------------
(* Specifications *)

InitRest ==
    /\ opdata = token_opdata_clear
    /\ allocated = 0
    /\ call = NoCall
    /\ caller = NoSession

\* the find protocol and attribute retrieval on a loaded token
Init == tobjects \in Registries /\ InitRest

Next ==
    \/ \E templ \in FindTempls, oom \in 0..(Len(tobjects) + 1) : FindInit(templ, oom)
    \/ \E max_object_count \in 0..MaxCount : FindNext(max_object_count)
    \/ FindFinal
    \/ \E object \in Handles, templ \in TokenGetTempls : GetAttributes(object, templ)

Spec == Init /\ [][Next]_vars

\* attribute retrieval alone, on richer objects and templates
InitGetAttr == tobjects \in GetRegistries /\ InitRest

\* one call per behaviour: the call changes nothing a second call would read
NextGetAttr ==
    /\ call = NoCall
    /\ \E object \in GetHandles, templ \in GetTempls : GetAttributes(object, templ)

SpecGetAttr == InitGetAttr /\ [][NextGetAttr]_vars

\* the template matcher on one object
InitFilter ==
    /\ tobjects \in {<<TObject(ObjId(1), s, <<>>)>> : s \in FilterStores}
    /\ InitRest

NextFilter ==
    /\ call = NoCall
    /\ \E templ \in FilterTempls : AttrFilter(<<1>>, templ)

SpecFilter == InitFilter /\ [][NextFilter]_vars

\* the mechanism check on one object
InitMech ==
    /\ tobjects \in {<<TObject(ObjId(1), <<>>, m)>> : m \in MechLists}
    /\ InitRest

NextMech ==
    /\ call = NoCall
    /\ \E mech \in RequestMechs : MechIsSupported(<<1>>, mech)

SpecMech == InitMech /\ [][NextMech]_vars

-----------------------------------------------------------------------------
(* Properties of the mechanism check (SpecMech) *)

IsMechCall == call.fn = "object_mech_is_supported"

\* the parameter bytes of a mechanism
ParamBytes(m) ==
    IF m.ulParameterLen = 0 THEN <<>>
    ELSE SubSeq(m.pParameter[1], 1, m.ulParameterLen)

\* the three mechanisms with a rule of their own
SpecialMechs == {CKM_RSA_X_509, CKM_RSA_PKCS_OAEP, CKM_AES_CBC}

\* C5: is_supported returns CKR_MECHANISM_INVALID iff no entry of the object
\* has the requested identifier, CKR_MECHANISM_PARAM_INVALID iff some entry
\* has it and none of those passes the parameter check, CKR_OK iff some entry
\* with it passes; and under the default byte-equality rule an object that
\* declares the mechanism only with parameters other than the requested one
\* yields CKR_MECHANISM_PARAM_INVALID.
C5_MechReasons ==
    IsMechCall =>
        LET req   == call.args.mech
            mechs == tobjects[call.args.tobj[1]].mechanisms.mech
            same  == {i \in 1..Len(mechs) : mechs[i].mechanism = req.mechanism}
            pass  == {i \in same : is_equal(req, mechs[i])}
        IN  /\ (call.rv = CKR_MECHANISM_INVALID) <=> (same = {})
            /\ (call.rv = CKR_MECHANISM_PARAM_INVALID) <=> (same # {} /\ pass = {})
            /\ (call.rv = CKR_OK) <=> (pass # {})
            /\ ( /\ req.mechanism \notin SpecialMechs
                 /\ same # {}
                 /\ \A i \in same : ParamBytes(mechs[i]) # ParamBytes(req) )
               => call.rv = CKR_MECHANISM_PARAM_INVALID

\* C5 witness: mechanism CKM_AES_ECB declared with parameter <<0>> beside
\* another mechanism, requested with parameter <<1>>: parameter invalid
C5_Witness ==
    /\ IsMechCall
    /\ call.rv = CKR_MECHANISM_PARAM_INVALID
    /\ call.args.mech = MechOf(CKM_AES_ECB, <<1>>)
    /\ tobjects[1].mechanisms.mech =
           <<MechOf(CKM_SHA256_HMAC, <<0>>), MechOf(CKM_AES_ECB, <<0>>)>>

-----------------------------------------------------------------------------
(* Properties of the template matcher (SpecFilter) *)

IsFilterCall == call.fn = "object_attr_filter"

\* attribute a equals template entry t: same type, same length, and length 0
\* or the same bytes
AttrEquals(a, t) ==
    /\ a.type = t.type
    /\ a.ulValueLen = t.ulValueLen
    /\ \/ a.ulValueLen = 0
       \/ \A k \in 1..a.ulValueLen : a.pValue[1][k] = t.pValue[1][k]

\* C10: for a non-empty template T, matches(object, T) iff for every entry t
\* of T the object holds an attribute of t's type and length with length 0 or
\* equal bytes, iff find_exact returns an attribute for every entry of T; the
\* attributes of types T does not mention play no part, and every duplicate
\* of a type is considered.
C10_MatchesIffEveryEntryFound ==
    (IsFilterCall /\ call.args.count > 0) =>
        LET tobj  == call.args.tobj
            T     == call.args.templ
            attrs == tobjects[tobj[1]].atributes.attrs
            types == {T[i].type : i \in 1..Len(T)}
            named == SelectSeq(attrs, LAMBDA a : a.type \in types)
        IN  /\ call.out \in {NULL, tobj}
            /\ (call.out = tobj) <=>
                   \A i \in 1..Len(T) : \E j \in 1..Len(attrs) : AttrEquals(attrs[j], T[i])
            /\ (call.out = tobj) <=>
                   \A i \in 1..Len(T) : object_get_attribute_full(tobj, T[i]) # NULL
            /\ (call.out = tobj) <=>
                   \A i \in 1..Len(T) : \E j \in 1..Len(named) : AttrEquals(named[j], T[i])

\* C10 witness: the object holds type 1 twice, the template asks for the
\* value of the second one, and matches
C10_Witness ==
    /\ IsFilterCall
    /\ call.out = call.args.tobj
    /\ call.args.templ = <<StoredAttr(1, <<1>>)>>
    /\ tobjects[1].atributes.attrs = <<StoredAttr(1, <<0>>), StoredAttr(1, <<1>>)>>

-----------------------------------------------------------------------------
(* Properties of attribute retrieval (SpecGetAttr) *)

IsGetCall == call.fn = "object_get_attributes"

\* the list position of the object whose id is handle h, 0 when there is none
ObjOfHandle(h) ==
    IF \E i \in 1..Len(tobjects) : tobjects[i].id = h
    THEN CHOOSE i \in 1..Len(tobjects) : tobjects[i].id = h
    ELSE 0

\* the attributes of the object a get_attributes call named
CalledAttrs == tobjects[ObjOfHandle(call.args.object)].atributes.attrs

Present(attrs, t) == \E j \in 1..Len(attrs) : attrs[j].type = t

\* the attribute a lookup by type answers with: the first of that type
FirstOfType(attrs, t) ==
    attrs[CHOOSE j \in 1..Len(attrs) :
              attrs[j].type = t /\ \A k \in 1..(j - 1) : attrs[k].type # t]

\* entry e comes with a buffer that the attribute does not fit in
TooSmall(attrs, e) ==
    /\ e.pValue # NULL
    /\ Present(attrs, e.type)
    /\ e.ulValueLen < FirstOfType(attrs, e.type).ulValueLen

\* the entries of template T the call reaches and completes: those before
\* the first entry that is too small
Reached(attrs, T) ==
    {i \in 1..Len(T) : \A k \in 1..i : ~TooSmall(attrs, T[k])}

\* what completing entry e leaves in it
Completed(attrs, e) ==
    IF ~Present(attrs, e.type) THEN Attr(e.type, NULL, 0)
    ELSE LET a == FirstOfType(attrs, e.type)
             n == a.ulValueLen
         IN  IF e.pValue = NULL THEN Attr(e.type, NULL, n)
             ELSE Attr(e.type,
                       <<(IF n = 0 THEN <<>> ELSE a.pValue[1])
                           \o SubSeq(e.pValue[1], n + 1, Len(e.pValue[1]))>>,
                       n)

\* C6: when an entry names a present attribute, has a buffer, and declares a
\* capacity smaller than the attribute's length, the call fails with
\* CKR_BUFFER_TOO_SMALL; the entries before the first such entry keep what was
\* written to them, that entry and every later one are as the caller passed
\* them.
C6_BufferTooSmall ==
    (IsGetCall /\ ObjOfHandle(call.args.object) # 0) =>
        LET T == call.args.templ
            R == call.out.templ
            small == {i \in 1..Len(T) : TooSmall(CalledAttrs, T[i])}
        IN  small # {} =>
                LET f == CHOOSE i \in small : \A k \in small : i <= k IN
                /\ call.rv = CKR_BUFFER_TOO_SMALL
                /\ Len(R) = Len(T)
                /\ \A k \in 1..(f - 1) : R[k] = Completed(CalledAttrs, T[k])
                /\ \A k \in f..Len(T) : R[k] = T[k]

\* C6 witness: a buffer of 1 byte for an attribute of 2 bytes, after an entry
\* that was filled in and changed by it
C6_Witness ==
    /\ IsGetCall
    /\ call.rv = CKR_BUFFER_TOO_SMALL
    /\ tobjects[1].atributes.attrs = <<StoredAttr(2, <<0, 1>>), StoredAttr(1, <<0>>)>>
    /\ call.args.templ = <<Buffer(1, 2), Buffer(2, 1)>>
    /\ call.out.templ = <<Attr(1, <<(<<0, 9>>)>>, 1), Buffer(2, 1)>>

\* C7: an entry with a null buffer whose type is present with length N, once
\* the call reaches it, gets length N and keeps its null buffer whatever
\* length the caller had put in it; the call goes on to the next entry, and
\* returns CKR_OK when no entry is too small.
C7_SizeProbe ==
    (IsGetCall /\ ObjOfHandle(call.args.object) # 0) =>
        LET T == call.args.templ
            R == call.out.templ
            reached == Reached(CalledAttrs, T)
            probes  == {i \in 1..Len(T) :
                           T[i].pValue = NULL /\ Present(CalledAttrs, T[i].type)}
        IN  /\ \A i \in probes \cap reached :
                  /\ R[i] = Attr(T[i].type, NULL,
                                 FirstOfType(CalledAttrs, T[i].type).ulValueLen)
                  /\ (i + 1) \in reached => R[i + 1] = Completed(CalledAttrs, T[i + 1])
            /\ (probes # {} /\ reached = 1..Len(T)) => call.rv = CKR_OK

\* C7 witness: a probe with caller length 1 for an attribute of length 2,
\* followed by an entry that is filled in
C7_Witness ==
    /\ IsGetCall
    /\ call.rv = CKR_OK
    /\ tobjects[1].atributes.attrs = <<StoredAttr(1, <<1, 0>>), StoredAttr(2, <<>>)>>
    /\ call.args.templ = <<Probe(1, 1), Buffer(2, 1)>>
    /\ call.out.templ = <<Attr(1, NULL, 2), Attr(2, <<(<<9>>)>>, 0)>>

\* C8: an entry whose type is not present on the object, once the call
\* reaches it, gets length 0 and a null buffer even if the caller supplied a
\* buffer; the call goes on to the next entry, and a call that fails has an
\* entry that is too small: absent entries never make it fail.
C8_AbsentAttribute ==
    (IsGetCall /\ ObjOfHandle(call.args.object) # 0) =>
        LET T == call.args.templ
            R == call.out.templ
            reached == Reached(CalledAttrs, T)
            absent  == {i \in 1..Len(T) : ~Present(CalledAttrs, T[i].type)}
        IN  /\ \A i \in absent \cap reached :
                  /\ R[i] = Attr(T[i].type, NULL, 0)
                  /\ (i + 1) \in reached => R[i + 1] = Completed(CalledAttrs, T[i + 1])
            /\ call.rv # CKR_OK =>
                  /\ call.rv = CKR_BUFFER_TOO_SMALL
                  /\ \E i \in 1..Len(T) : i \notin absent /\ TooSmall(CalledAttrs, T[i])

\* C8 witness: a buffer passed for a type the object does not hold, followed
\* by a probe that is answered
C8_Witness ==
    /\ IsGetCall
    /\ call.rv = CKR_OK
    /\ tobjects[1].atributes.attrs = <<StoredAttr(1, <<1, 0>>)>>
    /\ call.args.templ = <<Buffer(2, 2), Probe(1, 0)>>
    /\ call.out.templ = <<Attr(2, NULL, 0), Attr(1, NULL, 2)>>

\* C9 (as claimed): a handle that is the id of no object of the registry
\* gives CKR_OBJECT_HANDLE_INVALID and an untouched template, on every
\* registry, the empty one included.
C9_UnknownHandle ==
    (IsGetCall /\ ObjOfHandle(call.args.object) = 0) =>
        /\ call.rv = CKR_OBJECT_HANDLE_INVALID
        /\ call.out.templ = call.args.templ

\* C9 on the registries that hold an object: there the claim holds
C9_UnknownHandleNonEmpty ==
    (IsGetCall /\ ObjOfHandle(call.args.object) = 0 /\ tobjects # <<>>) =>
        /\ call.rv = CKR_OBJECT_HANDLE_INVALID
        /\ call.out.templ = call.args.templ

-----------------------------------------------------------------------------
(* Properties of the find protocol (Spec) *)

IsFindInitCall  == call.fn = "object_find_init"
IsFindCall      == call.fn = "object_find"
IsFindFinalCall == call.fn = "object_find_final"

Idle       == opdata.op = operation_none
FindActive == opdata.op = operation_find

\* the ids, in registry order, of the objects that match template templ
MatchIds(templ) ==
    LET hit == SelectSeq([i \in 1..Len(tobjects) |-> i],
                         LAMBDA i : object_attr_filter(<<i>>, templ, Len(templ)) # NULL)
    IN  [k \in 1..Len(hit) |-> tobjects[hit[k]].id]

IsPrefix(p, q) == Len(p) <= Len(q) /\ p = SubSeq(q, 1, Len(p))

\* an array of n handles nothing was written to
NoHandles(n) == [i \in 1..n |-> NULL]

\* C1: during a find session the handles the find_next calls returned,
\* concatenated in call order, are the first of the ids of the objects that
\* matched the template at find_init, in registry order and without a repeat;
\* a find_next with a positive page size returns none only when all of them
\* have been returned, and find_next then still succeeds.
C1_FindPagination ==
    FindActive =>
        LET all == MatchIds(caller.templ) IN
        /\ IsPrefix(caller.found, all)
        /\ \A i, j \in 1..Len(caller.found) :
              caller.found[i] = caller.found[j] => i = j
        /\ IsFindCall =>
              LET n == call.out.object_count[1] IN
              /\ call.rv = CKR_OK
              /\ n <= call.args.max_object_count
              /\ n <= Len(caller.found)
              /\ Written(call.out.object, n)
                     = SubSeq(caller.found, Len(caller.found) - n + 1, Len(caller.found))
              /\ (call.args.max_object_count > 0 /\ n = 0) => caller.found = all

\* C1 witness: two objects matched a non-empty template, both ids were
\* returned, and a further find_next of page size 1 returned none
C1_Witness ==
    /\ FindActive
    /\ caller.templ = <<a10>>
    /\ Len(tobjects) = 2
    /\ caller.found = <<ObjId(1), ObjId(2)>>
    /\ IsFindCall
    /\ call.rv = CKR_OK
    /\ call.args.max_object_count = 1
    /\ call.out.object_count = <<0>>

\* C2: find_init while a find operation is active returns
\* CKR_OPERATION_ACTIVE and leaves the session as it was: slot, match list and
\* cursor, so every find_next returns after it what it would have returned
\* before it.
C2_SecondFindInit ==
    [][ (IsFindInitCall' /\ FindActive) =>
            /\ call'.rv = CKR_OPERATION_ACTIVE
            /\ opdata' = opdata
            /\ allocated' = allocated
            /\ caller' = caller
            /\ \A m \in 0..MaxCount :
                  object_find(NoHandles(m), m, NULL)' = object_find(NoHandles(m), m, NULL)
      ]_vars

\* C2 witness: a find_init was refused while the session had returned one of
\* its two matches
C2_Witness ==
    /\ IsFindInitCall
    /\ call.rv = CKR_OPERATION_ACTIVE
    /\ FindActive
    /\ caller.templ = <<a10>>
    /\ caller.found = <<ObjId(1)>>
    /\ MatchIds(caller.templ) = <<ObjId(1), ObjId(2)>>

\* C3: find_final in state FindActive returns CKR_OK and leaves the registry
\* Idle, where a find_init (no allocation failing) succeeds again; find_final
\* and find_next in state Idle return CKR_OPERATION_NOT_INITIALIZED and leave
\* it Idle; no call changes the registry's objects.
C3_FindFinal ==
    [][ /\ (IsFindFinalCall' /\ FindActive) => (call'.rv = CKR_OK /\ Idle')
        /\ ((IsFindFinalCall' \/ IsFindCall') /\ Idle) =>
              (call'.rv = CKR_OPERATION_NOT_INITIALIZED /\ Idle' /\ opdata' = opdata)
        /\ (IsFindInitCall' /\ Idle /\ call'.args.oom = 0) =>
              (call'.rv = CKR_OK /\ FindActive')
        /\ tobjects' = tobjects
      ]_vars

\* C3 witness: find_final was called on an idle registry that holds objects,
\* and was refused
C3_Witness ==
    /\ IsFindFinalCall
    /\ call.rv = CKR_OPERATION_NOT_INITIALIZED
    /\ Idle
    /\ Len(tobjects) = 2

\* C4: when a calloc of find_init fails (the session's, the first node's or a
\* later node's) find_init returns CKR_HOST_MEMORY, every block it allocated
\* is freed, the slot holds no operation, and a find_init after it is not
\* refused with CKR_OPERATION_ACTIVE; an idle registry owns no block.
C4_FindInitOutOfMemory ==
    /\ [](Idle => allocated = 0)
    /\ [][ ( /\ IsFindInitCall'
             /\ Idle
             /\ call'.args.oom \in 1..(1 + Len(MatchIds(call'.args.templ))) ) =>
               /\ call'.rv = CKR_HOST_MEMORY
               /\ allocated' = allocated
               /\ Idle'
               /\ opdata' = opdata
               /\ \A t \in FindTempls :
                     object_find_init(t, Len(t), 0)'.rv # CKR_OPERATION_ACTIVE
         ]_vars

\* C4 witness: the third calloc failed, after the session and the node of the
\* first match had been allocated
C4_Witness ==
    /\ IsFindInitCall
    /\ call.rv = CKR_HOST_MEMORY
    /\ call.args.oom = 3
    /\ Len(MatchIds(call.args.templ)) = 2
    /\ Idle
    /\ allocated = 0

\* the objects a match list references, from node cur on, in list order
RECURSIVE ListObjs(_)
ListObjs(cur) ==
    IF cur = NULL THEN <<>> ELSE <<cur[1].obj[1]>> \o ListObjs(cur[1].next)

\* the ids of all the objects of the registry, in registry order
AllIds == [i \in 1..Len(tobjects) |-> tobjects[i].id]

\* C11: a find session opened with the empty template holds every object of
\* the registry, in registry order, the objects with no attribute included
\* (the matcher returns each object for the empty template); once a find_next
\* with a positive page size has returned no handle, the handles the caller
\* has received are the ids of all the objects, in registry order.
C11_EmptyTemplateMatchesAll ==
    (FindActive /\ caller.templ = <<>>) =>
        /\ ListObjs(opdata.data[1].head) = [i \in 1..Len(tobjects) |-> i]
        /\ \A i \in 1..Len(tobjects) : object_attr_filter(<<i>>, <<>>, 0) = <<i>>
        /\ IsPrefix(caller.found, AllIds)
        /\ ( /\ IsFindCall
             /\ call.rv = CKR_OK
             /\ call.args.max_object_count > 0
             /\ call.out.object_count = <<0>> ) => caller.found = AllIds

\* C11 witness: the empty template on a registry of two objects, the second
\* with no attribute; two pages of one handle, then an empty page
C11_Witness ==
    /\ FindActive
    /\ caller.templ = <<>>
    /\ Len(tobjects) = 2
    /\ AttrsOf(<<2>>).count = 0
    /\ IsFindCall
    /\ call.args.max_object_count = 1
    /\ call.out.object_count = <<0>>
    /\ caller.pages = 2
    /\ caller.found = <<ObjId(1), ObjId(2)>>

-----------------------------------------------------------------------------
(* Monotonicity of the matcher (SpecFilter) *)

\* the entries of a template, as a set
Entries(templ) == {templ[i] : i \in 1..Len(templ)}

\* the templates all of whose entries are entries of templ: any number of
\* them up to the length of templ, in any order, with repeats
SubTempls(templ) ==
    UNION {[1..k -> Entries(templ)] : k \in 0..Len(templ)}

\* C12: when the matcher returned the object for template T, it returns the
\* object for every template T' all of whose entries are entries of T, the
\* empty one included; so the ids a find with T finds are among the ids a
\* find with T' finds.
C12_SubsetMonotone ==
    (IsFilterCall /\ call.out # NULL) =>
        \A sub \in SubTempls(call.args.templ) :
            /\ object_attr_filter(call.args.tobj, sub, Len(sub)) = call.args.tobj
            /\ Entries(MatchIds(call.args.templ)) \subseteq Entries(MatchIds(sub))

\* C12 witness: a template of two different entries matched an object, and
\* the template of its second entry alone is one of its sub-templates
C12_Witness ==
    /\ IsFilterCall
    /\ call.out # NULL
    /\ call.args.count = 2
    /\ call.args.templ[1] # call.args.templ[2]
    /\ <<call.args.templ[2]>> \in SubTempls(call.args.templ)
    /\ MatchIds(<<call.args.templ[2]>>) = <<ObjId(1)>>

-----------------------------------------------------------------------------
(* Attribute store: tobject_append_attrs *)

\* an attribute slot after memset(.., 0, ..)
ZeroAttr == Attr(0, NULL, 0)

\* the loop of utils_attr_deep_copy (utils.c): slot i of copy gets the type and
\* length of attrs[i] and a freshly allocated buffer holding its bytes; an
\* entry of length 0 needs no buffer.  n counts the allocations made so far by
\* the append, the one numbered oom fails.  On a failure the slots copied so
\* far either stay or are released and cleared again.
RECURSIVE DeepCopyLoop(_, _, _, _, _, _)
DeepCopyLoop(attrs, count, copy, i, n, oom) ==
    IF i > count THEN {[rv |-> CKR_OK, copy |-> copy, n |-> n]}
    ELSE LET in == attrs[i] IN
         IF in.ulValueLen = 0 \/ in.pValue = NULL
         THEN DeepCopyLoop(attrs, count,
                           [copy EXCEPT ![i] = Attr(in.type, NULL, 0)],
                           i + 1, n, oom)
         ELSE IF n + 1 = oom
         THEN {[rv |-> CKR_HOST_MEMORY, copy |-> copy, n |-> n],
               [rv |-> CKR_HOST_MEMORY,
                copy |-> [k \in 1..count |-> ZeroAttr], n |-> n]}
         ELSE LET newval == <<[k \in 1..in.ulValueLen |-> 0]>> IN
              DeepCopyLoop(attrs, count,
                           [copy EXCEPT ![i] =
                               Attr(in.type,
                                    memcpy(newval, in.pValue, in.ulValueLen),
                                    in.ulValueLen)],
                           i + 1, n + 1, oom)

utils_attr_deep_copy(attrs, count, copy, n, oom) ==
    DeepCopyLoop(attrs, count, copy, 1, n, oom)

\* a mutant: the length of the first entry is not tested
tobject_append_attrs_NoSkip(tobj, attrs, count, oom) ==
    LET offset == AttrsOf(tobj).count
        newlen == AttrsOf(tobj).count + count
    IN  IF oom = 1
        THEN {[rv |-> CKR_HOST_MEMORY, atributes |-> AttrsOf(tobj), n |-> 0]}
        ELSE {[rv |-> r.rv,
               atributes |-> [count |-> newlen,
                              attrs |-> AttrsOf(tobj).attrs \o r.copy],
               n |-> r.n]
              : r \in utils_attr_deep_copy(attrs, count,
                                           [k \in 1..count |-> ZeroAttr], 1, oom)}

\* tobject_append_attrs: the outcomes [rv, atributes, n], atributes the store
\* of tobj after the call and n the allocations the call made.  realloc is
\* allocation 1; when it fails the old block is untouched.  When it succeeds
\* count and attrs are assigned and the new slots cleared before the copy.
tobject_append_attrs(tobj, attrs, count, oom) ==
    IF attrs[1].ulValueLen = 0
    THEN {[rv |-> CKR_OK, atributes |-> AttrsOf(tobj), n |-> 0]}
    ELSE LET offset == AttrsOf(tobj).count
             newlen == AttrsOf(tobj).count + count
         IN  IF oom = 1
             THEN {[rv |-> CKR_HOST_MEMORY, atributes |-> AttrsOf(tobj), n |-> 0]}
             ELSE LET cleared == AttrsOf(tobj).attrs
                                    \o [k \in 1..count |-> ZeroAttr]
                  IN  {[rv |-> r.rv,
                        atributes |-> [count |-> newlen,
                                       attrs |-> SubSeq(cleared, 1, offset) \o r.copy],
                        n |-> r.n]
                       : r \in utils_attr_deep_copy(attrs, count,
                                   SubSeq(cleared, offset + 1, newlen), 1, oom)}

\* the entries the loader appends: two with a value, one of length 0, and one
\* of length 0 that does point to a buffer
AppendEntries == {a10, a2, StoredAttr(2, <<>>), Attr(1, <<(<<1>>)>>, 0)}
AppendInputs  == SeqUpTo(AppendEntries, MaxTempl) \ {<<>>}

\* args.old is the store of tobj before the call
AppendAttrs(tobj, attrs, oom) ==
    /\ \E r \in tobject_append_attrs(tobj, attrs, Len(attrs), oom) :
          /\ tobjects' = [tobjects EXCEPT ![tobj[1]].atributes = r.atributes]
          /\ call' = [fn |-> "tobject_append_attrs",
                      args |-> [tobj |-> tobj, attrs |-> attrs,
                                count |-> Len(attrs), oom |-> oom,
                                old |-> AttrsOf(tobj)],
                      rv |-> r.rv, out |-> [n |-> r.n]]
    /\ UNCHANGED <<opdata, allocated, caller>>

\* the loader populating a new object: tobject_new, tobject_set_id, then
\* appends while the store holds fewer than MaxAttrs attributes
InitAppend ==
    /\ tobjects = <<TObject(ObjId(1), <<>>, <<>>)>>
    /\ InitRest

NextAppend ==
    /\ AttrsOf(<<1>>).count < MaxAttrs
    /\ \E attrs \in AppendInputs, oom \in 0..(MaxTempl + 1) :
          AppendAttrs(<<1>>, attrs, oom)

SpecAppend == InitAppend /\ [][NextAppend]_vars

IsAppendCall == call.fn = "tobject_append_attrs"

\* the allocations an append of attrs makes when none fails: the realloc and
\* one buffer for each entry that has a value
NeedAllocs(attrs) ==
    1 + Cardinality({i \in 1..Len(attrs) :
                        attrs[i].ulValueLen # 0 /\ attrs[i].pValue # NULL})

\* an allocation of the call failed
AllocFailed ==
    /\ call.args.attrs[1].ulValueLen # 0
    /\ call.args.oom \in 1..NeedAllocs(call.args.attrs)

\* C13: an append in which an allocation fails, the growth of the storage or
\* the buffer of any new value, returns CKR_HOST_MEMORY and leaves the store
\* as it was: the same count, the same entries, no new or cleared slot.
C13_AppendAtomic ==
    (IsAppendCall /\ AllocFailed) =>
        /\ call.rv = CKR_HOST_MEMORY
        /\ AttrsOf(call.args.tobj) = call.args.old

\* C13 where the growth of the storage is what fails: there the claim holds
C13_GrowthFailure ==
    (IsAppendCall /\ call.args.attrs[1].ulValueLen # 0 /\ call.args.oom = 1) =>
        /\ call.rv = CKR_HOST_MEMORY
        /\ AttrsOf(call.args.tobj) = call.args.old

\* what the code does when the buffer of a new value cannot be allocated:
\* CKR_HOST_MEMORY, and the store has grown by count slots
C13_CopyFailureGrows ==
    (IsAppendCall /\ AllocFailed /\ call.args.oom > 1) =>
        /\ call.rv = CKR_HOST_MEMORY
        /\ AttrsOf(call.args.tobj).count = call.args.old.count + call.args.count
        /\ AttrsOf(call.args.tobj).attrs[AttrsOf(call.args.tobj).count] = ZeroAttr

\* entry c is a copy of entry a: its type, its length and its bytes
IsCopy(c, a) ==
    /\ c.type = a.type
    /\ c.ulValueLen = a.ulValueLen
    /\ a.ulValueLen # 0 => (c.pValue # NULL /\ memcmp(c.pValue, a.pValue, a.ulValueLen) = 0)

\* C14: an append whose first entry has length 0 returns CKR_OK, allocates
\* nothing and leaves the store as it was, whatever the other entries are;
\* an append whose first entry has a length and in which no allocation fails
\* returns CKR_OK and the store is then the old entries followed by copies of
\* all the entries passed, in order.
C14_AppendSkipOrConcat ==
    IsAppendCall =>
        LET old  == call.args.old
            new  == AttrsOf(call.args.tobj)
            in   == call.args.attrs
        IN  /\ in[1].ulValueLen = 0 =>
                /\ call.rv = CKR_OK
                /\ call.out.n = 0
                /\ new = old
            /\ (in[1].ulValueLen # 0 /\ ~AllocFailed) =>
                /\ call.rv = CKR_OK
                /\ new.count = old.count + call.args.count
                /\ Len(new.attrs) = new.count
                /\ SubSeq(new.attrs, 1, old.count) = old.attrs
                /\ \A i \in 1..call.args.count :
                      IsCopy(new.attrs[old.count + i], in[i])

\* C14 witness: onto a store of one attribute, an append of an entry of
\* length 0 followed by an entry with a value: nothing is appended
C14_Witness ==
    /\ IsAppendCall
    /\ call.args.old.count = 1
    /\ call.args.attrs = <<StoredAttr(2, <<>>), a10>>
    /\ call.args.oom = 0
    /\ call.rv = CKR_OK
    /\ AttrsOf(<<1>>).count = 1

\* an append that added a first entry with a value and a second of length 0
C14_WitnessConcat ==
    /\ IsAppendCall
    /\ call.args.old.count = 1
    /\ call.args.attrs = <<a2, StoredAttr(2, <<>>)>>
    /\ call.rv = CKR_OK
    /\ AttrsOf(<<1>>).count = 3

-----------------------------------------------------------------------------
(* The CKM_AES_CBC rule (SpecMech) *)

\* C15: for a request of CKM_AES_CBC the check returns CKR_OK iff the object
\* declares at least one CKM_AES_CBC entry and the requested parameter length
\* is 16, CKR_MECHANISM_PARAM_INVALID iff it declares one and the length is
\* not 16, and CKR_MECHANISM_INVALID iff it declares none, the length being 16
\* or not; the parameter of the declared entry plays no part.
C15_CbcRule ==
    (IsMechCall /\ call.args.mech.mechanism = CKM_AES_CBC) =>
        LET req      == call.args.mech
            mechs    == tobjects[call.args.tobj[1]].mechanisms.mech
            declared == \E i \in 1..Len(mechs) : mechs[i].mechanism = CKM_AES_CBC
        IN  /\ (call.rv = CKR_OK) <=> (declared /\ req.ulParameterLen = 16)
            /\ (call.rv = CKR_MECHANISM_PARAM_INVALID)
                   <=> (declared /\ req.ulParameterLen # 16)
            /\ (call.rv = CKR_MECHANISM_INVALID) <=> ~declared

\* C15 witness: CKM_AES_CBC declared with an IV of zeros, requested with an
\* IV of ones: supported
C15_Witness ==
    /\ IsMechCall
    /\ call.rv = CKR_OK
    /\ call.args.mech = MechOf(CKM_AES_CBC, IV(1))
    /\ \E i \in 1..Len(tobjects[1].mechanisms.mech) :
          tobjects[1].mechanisms.mech[i] = MechOf(CKM_AES_CBC, IV(0))
    /\ \A i \in 1..Len(tobjects[1].mechanisms.mech) :
          tobjects[1].mechanisms.mech[i] # call.args.mech

\* a request of 16 bytes for an object that declares no CKM_AES_CBC entry
C15_WitnessUndeclared ==
    /\ IsMechCall
    /\ call.rv = CKR_MECHANISM_INVALID
    /\ call.args.mech = MechOf(CKM_AES_CBC, IV(1))
    /\ Len(tobjects[1].mechanisms.mech) = 2

\* a request of 15 bytes for an object that declares CKM_AES_CBC
C15_WitnessShortIv ==
    /\ IsMechCall
    /\ call.rv = CKR_MECHANISM_PARAM_INVALID
    /\ call.args.mech.mechanism = CKM_AES_CBC
    /\ call.args.mech.ulParameterLen = 15

-----------------------------------------------------------------------------
(* Pages, empty sessions and frames of the find protocol (Spec) *)

Min(a, b) == IF a < b THEN a ELSE b

\* the matches the session has not handed out yet
Remaining == ListObjs(opdata.data[1].cur)

\* C16: a find_next(max) in an active session returns CKR_OK and exactly
\* min(max, remaining) handles; it writes the first that many slots of the
\* caller's array, with the ids of the next matches in order, and no other
\* slot; the cursor advances by that many matches and the match list is as it
\* was; find_next(0) returns 0 and leaves the session as it was.
C16_PageSize ==
    [][ (FindActive /\ IsFindCall') =>
          LET max == call'.args.max_object_count
              n   == Min(max, Len(Remaining))
          IN  /\ call'.rv = CKR_OK
              /\ call'.out.object_count = <<n>>
              /\ n <= max
              /\ Len(call'.out.object) = max
              /\ \A i \in 1..max :
                    call'.out.object[i] =
                        IF i <= n THEN <<tobjects[Remaining[i]].id>> ELSE NULL
              /\ FindActive'
              /\ Remaining' = SubSeq(Remaining, n + 1, Len(Remaining))
              /\ opdata'.data[1].head = opdata.data[1].head
              /\ max = 0 => opdata' = opdata
      ]_vars

\* C16 witness: a page of 1 then a page of 2 on a session of two matches:
\* the second page holds one handle and its second slot is not written
C16_Witness ==
    /\ FindActive
    /\ IsFindCall
    /\ call.args.max_object_count = 2
    /\ call.out.object_count = <<1>>
    /\ call.out.object = <<(<<ObjId(2)>>), NULL>>
    /\ caller.found = <<ObjId(1), ObjId(2)>>
    /\ Remaining = <<>>

\* a find session with no match
EmptySession == FindActive /\ opdata.data[1].head = NULL

\* C17: a find_init on an idle token that has no object, or none that matches
\* the template, and whose session allocation does not fail, returns CKR_OK
\* and leaves an active session with no match; in such a session every
\* find_next returns CKR_OK and 0 handles, a find_init is rejected with
\* CKR_OPERATION_ACTIVE, and find_final returns CKR_OK and frees the token.
C17_EmptySession ==
    /\ [][ ( /\ Idle
             /\ IsFindInitCall'
             /\ call'.args.oom # 1
             /\ MatchIds(call'.args.templ) = <<>> ) =>
               /\ call'.rv = CKR_OK
               /\ EmptySession'
               /\ opdata'.data[1].cur = NULL
         ]_vars
    /\ [](EmptySession =>
            /\ \A max \in 0..MaxCount :
                  LET r == object_find(NoHandles(max), max, NULL) IN
                  /\ r.rv = CKR_OK
                  /\ r.object_count = <<0>>
                  /\ r.object = NoHandles(max)
                  /\ r.opdata = opdata
            /\ \A templ \in FindTempls :
                  LET r == object_find_init(templ, Len(templ), 0) IN
                  r.rv = CKR_OPERATION_ACTIVE /\ r.opdata = opdata
            /\ object_find_final.rv = CKR_OK
            /\ object_find_final.opdata.op = operation_none)

\* C17 witness: find_init with a template no object of a registry of two
\* matches has returned CKR_OK and the session is active and empty
C17_Witness ==
    /\ IsFindInitCall
    /\ call.rv = CKR_OK
    /\ Len(tobjects) = 2
    /\ caller.templ = <<a11>>
    /\ MatchIds(<<a11>>) = <<>>
    /\ EmptySession

\* the same on a token with no object
C17_WitnessNoObject ==
    /\ IsFindInitCall
    /\ call.rv = CKR_OK
    /\ tobjects = <<>>
    /\ EmptySession

\* C18: a get_attributes call, whatever it returns, leaves the registry (the
\* objects, their attributes and mechanisms), the operation slot, the match
\* list and its cursor, and the heap as they were; the handles a find_next
\* would return are the same after the call as before it.
C18_GetAttributesReadOnly ==
    [][ IsGetCall' =>
          /\ tobjects' = tobjects
          /\ opdata' = opdata
          /\ allocated' = allocated
          /\ caller' = caller
          /\ \A max \in 0..MaxCount :
                object_find(NoHandles(max), max, NULL)'
                    = object_find(NoHandles(max), max, NULL)
      ]_vars

\* C18 witness: between two pages of a find session of two matches, a
\* get_attributes call that returned CKR_BUFFER_TOO_SMALL
C18_Witness ==
    /\ IsGetCall
    /\ call.rv = CKR_BUFFER_TOO_SMALL
    /\ FindActive
    /\ caller.found = <<ObjId(1)>>
    /\ Remaining = <<2>>

\* the same with a handle of no object, and with a call that succeeded
C18_WitnessUnknown ==
    /\ IsGetCall
    /\ call.rv = CKR_OBJECT_HANDLE_INVALID
    /\ FindActive
    /\ Remaining = <<2>>

C18_WitnessOk ==
    /\ IsGetCall
    /\ call.rv = CKR_OK
    /\ FindActive
    /\ Remaining = <<2>>

\* sequence s is q with some first elements removed
IsSuffix(s, q) ==
    Len(s) <= Len(q) /\ s = SubSeq(q, Len(q) - Len(s) + 1, Len(q))

\* C19: at every point of every sequence of find_init, find_next, find_final
\* and get_attributes calls, failing ones included: the slot holds a find
\* session iff the last successful find_init has not been followed by a
\* successful find_final, and holds nothing otherwise; every element of the
\* match list references an object of the registry; the cursor is a position
\* of the match list or its end; and from one call to the next within a
\* session the match list is unchanged and the cursor does not move back.
C19_SessionInvariant ==
    /\ [](/\ FindActive <=> caller.open
          /\ Idle <=> ~caller.open
          /\ Idle => opdata.data = NULL
          /\ FindActive =>
                /\ opdata.data # NULL
                /\ \A k \in 1..Len(ListObjs(opdata.data[1].head)) :
                      ListObjs(opdata.data[1].head)[k] \in 1..Len(tobjects)
                /\ IsSuffix(Remaining, ListObjs(opdata.data[1].head)))
    /\ [][ (FindActive /\ FindActive') =>
              /\ opdata'.data[1].head = opdata.data[1].head
              /\ IsSuffix(Remaining', Remaining)
         ]_vars

\* C19 witness: a session of two matches with the cursor on the second, after
\* a find_init that was rejected because the session is open
C19_Witness ==
    /\ caller.open
    /\ FindActive
    /\ IsFindInitCall
    /\ call.rv = CKR_OPERATION_ACTIVE
    /\ ListObjs(opdata.data[1].head) = <<1, 2>>
    /\ Remaining = <<2>>

-----------------------------------------------------------------------------
(* Exhaustion of a find session (SpecPaging) *)

\* a caller that pages through find sessions, and keeps calling find_next
\* with a positive page size
NextPaging ==
    \/ \E templ \in FindTempls, oom \in 0..(Len(tobjects) + 1) : FindInit(templ, oom)
    \/ \E max_object_count \in 0..MaxCount : FindNext(max_object_count)
    \/ FindFinal

KeepsCalling == \E max_object_count \in 1..MaxCount : FindNext(max_object_count)

\* tokens of objects that the templates tell apart: one matches <<a10>> and
\* the empty template only, the other every template
PagingStores == {<<a10>>, <<a2, a11, a10>>}
PagingRegistries ==
    UNION {{[i \in 1..n |-> TObject(ObjId(i), s[i], <<>>)] : s \in [1..n -> PagingStores]}
           : n \in 0..MaxObjs}

InitPaging == tobjects \in PagingRegistries /\ InitRest

SpecPaging == InitPaging /\ [][NextPaging]_vars /\ WF_vars(KeepsCalling)

\* the last call was a find_next with a positive page size that returned
\* CKR_OK and no handle
GotNone ==
    /\ IsFindCall
    /\ call.args.max_object_count > 0
    /\ call.rv = CKR_OK
    /\ call.out.object_count = <<0>>

\* C20: a caller that keeps calling find_next with a positive page size in a
\* session eventually gets CKR_OK with 0 handles, unless the session is
\* ended first; every such call returns CKR_OK, and at least one handle
\* exactly when a match is left, so the calls that return a handle are at
\* most as many as the matches and the call after them returns 0; once no
\* match is left none is left at any later call of the session: the cursor
\* does not start over and every later find_next returns 0.
C20_FindExhausts ==
    /\ [](FindActive =>
            /\ caller.pages <= Len(caller.found)
            /\ Len(caller.found) + Len(Remaining) = Len(MatchIds(caller.templ)))
    /\ [][ (FindActive /\ IsFindCall' /\ call'.args.max_object_count > 0) =>
              /\ call'.rv = CKR_OK
              /\ FindActive'
              /\ (call'.out.object_count = <<0>>) <=> (Remaining = <<>>)
              /\ Remaining # <<>> => Len(Remaining') < Len(Remaining)
         ]_vars
    /\ [][ (FindActive /\ Remaining = <<>> /\ FindActive') => Remaining' = <<>>
         ]_vars
    /\ (FindActive ~> (Idle \/ GotNone))

\* C20 witness: a session of two matches, two pages of one handle, then a
\* call that returned no handle
C20_Witness ==
    /\ FindActive
    /\ GotNone
    /\ call.args.max_object_count = 2
    /\ caller.pages = 2
    /\ Len(MatchIds(caller.templ)) = 2
    /\ Remaining = <<>>

=============================================================================
